---- MODULE Spec2Model ----
(***************************************************************************)
(* DeltAI crawler (deltai_crawler.py): the crawl loop of main() with its   *)
(* frontier queue, seen set, robots policy, sitemap seeding, content-type  *)
(* dispatch, record writer and asset store.                                *)
(*                                                                         *)
(* Python strings are modelled as sequences of one-character strings, so   *)
(* that lower(), split(), endswith(), substring tests and slicing are      *)
(* computed character by character as the code computes them.              *)
(***************************************************************************)
EXTENDS Integers, Sequences, FiniteSets, TLC

(***************************************************************************)
(* String primitives (Python str methods used by the crawler).             *)
(***************************************************************************)
UPPER == <<"A", "B", "C", "D", "E", "F", "G", "H", "I", "J", "K", "L", "M",
           "N", "O", "P", "Q", "R", "S", "T", "U", "V", "W", "X", "Y", "Z">>

LOWER == <<"a", "b", "c", "d", "e", "f", "g", "h", "i", "j", "k", "l", "m",
           "n", "o", "p", "q", "r", "s", "t", "u", "v", "w", "x", "y", "z">>

DIGITS == <<"0", "1", "2", "3", "4", "5", "6", "7", "8", "9">>

\* str.lower() on one character
LowerChar(c) ==
    IF \E i \in 1..Len(UPPER) : UPPER[i] = c
    THEN LOWER[CHOOSE i \in 1..Len(UPPER) : UPPER[i] = c]
    ELSE c

\* str.lower()
Lower(s) == [i \in 1..Len(s) |-> LowerChar(s[i])]

\* str.endswith(suffix)
EndsWith(s, suffix) ==
    /\ Len(suffix) <= Len(s)
    /\ SubSeq(s, Len(s) - Len(suffix) + 1, Len(s)) = suffix

\* str.startswith(prefix)
StartsWith(s, prefix) ==
    /\ Len(prefix) <= Len(s)
    /\ SubSeq(s, 1, Len(prefix)) = prefix

\* the Python test  sub in s
Contains(s, sub) ==
    \E i \in 0..(Len(s) - Len(sub)) : SubSeq(s, i + 1, i + Len(sub)) = sub

\* characters str.split() treats as separators
IsSpace(c) == c \in {" ", "\n", "\t", "\r"}

\* str.split() without argument: the maximal runs of non-space characters,
\* found by cutting at a separator and splitting both sides
RECURSIVE Split(_)
Split(s) ==
    LET seps == {i \in 1..Len(s) : IsSpace(s[i])}
    IN  IF s = <<>> THEN <<>>
        ELSE IF seps = {} THEN <<s>>
        ELSE LET mid == (Len(s) + 1) \div 2
                 dist(i) == IF i < mid THEN mid - i ELSE i - mid
                 cut == CHOOSE i \in seps : \A j \in seps : dist(i) <= dist(j)
             IN  Split(SubSeq(s, 1, cut - 1)) \o Split(SubSeq(s, cut + 1, Len(s)))

\* " ".join(words)
RECURSIVE JoinSpace(_)
JoinSpace(words) ==
    IF words = <<>> THEN <<>>
    ELSE IF Len(words) = 1 THEN words[1]
    ELSE LET half == Len(words) \div 2
         IN  JoinSpace(SubSeq(words, 1, half)) \o <<" ">>
                 \o JoinSpace(SubSeq(words, half + 1, Len(words)))

\* s[:n]
Prefix(s, n) == SubSeq(s, 1, IF n < Len(s) THEN n ELSE Len(s))

\* str(n) for a non-negative integer
RECURSIVE IntToStr(_)
IntToStr(n) ==
    IF n < 10 THEN <<DIGITS[n + 1]>>
    ELSE IntToStr(n \div 10) \o <<DIGITS[(n % 10) + 1]>>

\* truth value of a Python str
Truthy(s) == Len(s) > 0

\* list(dict.fromkeys(xs)): drop repeats, keep first occurrences in order
RECURSIVE Dedup(_)
Dedup(xs) ==
    IF xs = <<>> THEN <<>>
    ELSE LET init == SubSeq(xs, 1, Len(xs) - 1)
             last == xs[Len(xs)]
         IN  IF \E i \in 1..Len(init) : init[i] = last
             THEN Dedup(init)
             ELSE Append(Dedup(init), last)

\* number of occurrences of x in the sequence xs
Count(x, xs) == Cardinality({i \in 1..Len(xs) : xs[i] = x})

\* n one-letter words separated by single spaces
Words(n) == [i \in 1..(IF n = 0 THEN 0 ELSE 2 * n - 1) |-> IF i % 2 = 1 THEN "w" ELSE " "]

(***************************************************************************)
(* URLs.  A URL is the record urlparse() takes it apart into; UrlString is  *)
(* the text the crawler holds.                                             *)
(***************************************************************************)
MkUrl(scheme, netloc, path) == [scheme |-> scheme, netloc |-> netloc, path |-> path]

UrlString(u) == u.scheme \o <<":", "/", "/">> \o u.netloc \o u.path

ALLOWED_NETLOCS ==
    { <<"d", "e", "l", "t", "a", "w", "o", "n", "e", "n", ".", "n", "l">>,
      <<"w", "w", "w", ".", "d", "e", "l", "t", "a", "w", "o", "n", "e", "n", ".", "n", "l">> }

ALLOWED_SCHEMES == { <<"h", "t", "t", "p">>, <<"h", "t", "t", "p", "s">> }

\* the alternatives of the static-asset regex of is_allowed
DENIED_EXTENSIONS ==
    { <<"j", "p", "g">>, <<"j", "p", "e", "g">>, <<"p", "n", "g">>, <<"g", "i", "f">>,
      <<"s", "v", "g">>, <<"w", "e", "b", "p">>, <<"i", "c", "o">>, <<"c", "s", "s">>,
      <<"j", "s">>, <<"w", "o", "f", "f">>, <<"w", "o", "f", "f", "2">>,
      <<"t", "t", "f">>, <<"e", "o", "t">>, <<"m", "p", "4">>, <<"w", "e", "b", "m">>,
      <<"z", "i", "p">>, <<"r", "a", "r">> }

\* re.search(r"\.(jpg|...|rar)(\?.*)?$", path, re.I): the path urlparse returns
\* holds no "?", so the match is the path ending in "." and an extension
HasDeniedExtension(path) ==
    \E ext \in DENIED_EXTENSIONS : EndsWith(Lower(path), <<".">> \o ext)

\* up.urlparse(url) raises ValueError ("Invalid IPv6 URL") for a netloc with
\* one of "[" and "]" and not the other
UrlparseRaises(url) ==
    (\E i \in DOMAIN url.netloc : url.netloc[i] = "[")
        # (\E i \in DOMAIN url.netloc : url.netloc[i] = "]")

\* is_allowed comparing the netloc as written, without .lower()
is_allowedCaseSensitive(url) ==
    /\ ~UrlparseRaises(url)
    /\ url.scheme \in ALLOWED_SCHEMES
    /\ url.netloc \in ALLOWED_NETLOCS
    /\ ~HasDeniedExtension(url.path)

is_allowed(url) ==
    IF UrlparseRaises(url) THEN FALSE
    ELSE IF url.scheme \notin ALLOWED_SCHEMES THEN FALSE
    ELSE IF Lower(url.netloc) \notin ALLOWED_NETLOCS THEN FALSE
    ELSE IF HasDeniedExtension(url.path) THEN FALSE
    ELSE TRUE

(***************************************************************************)
(* Robots policy: urllib.robotparser.RobotFileParser as get_robot_parser   *)
(* and allowed_by_robots use it.                                           *)
(***************************************************************************)
\* RobotFileParser(): nothing read yet
NewRobotParser ==
    [disallow_all |-> FALSE, allow_all |-> FALSE, last_checked |-> FALSE,
     disallow |-> {}]

\* rp.read() inside "try: ... except: pass".  resp is what the request for
\* /robots.txt meets:
\*   kind "ok"          a body that decodes; parse() records the rules and
\*                      sets last_checked
\*   kind "httperror"   urlopen raises HTTPError(code), handled inside read()
\*   kind "urlerror"    urlopen raises URLError/timeout: read() raises, the
\*                      caller swallows it, the parser stays as constructed
\*   kind "undecodable" raw.decode("utf-8") raises: same
RobotRead(rp, resp) ==
    CASE resp.kind = "ok" ->
            [rp EXCEPT !.last_checked = TRUE, !.disallow = resp.disallow]
      [] resp.kind = "httperror" ->
            IF resp.code \in {401, 403}
            THEN [rp EXCEPT !.disallow_all = TRUE]
            ELSE IF resp.code >= 400 /\ resp.code < 500
                 THEN [rp EXCEPT !.allow_all = TRUE]
                 ELSE rp
      [] OTHER -> rp

get_robot_parser(resp) == RobotRead(NewRobotParser, resp)

\* rp.can_fetch(USER_AGENT, u)
can_fetch(rp, u) ==
    IF rp.disallow_all THEN FALSE
    ELSE IF rp.allow_all THEN TRUE
    ELSE IF ~rp.last_checked THEN FALSE
    ELSE ~(\E prefix \in rp.disallow : StartsWith(u.path, prefix))

\* allowed_by_robots(u): can_fetch, and True should it raise
allowed_by_robots(rp, u) == can_fetch(rp, u)

(***************************************************************************)
(* Text helpers of the crawler.                                            *)
(***************************************************************************)
ARTICLE_MIN_WORDS == 50

html_is_article(text) == Len(Split(text)) >= ARTICLE_MIN_WORDS

\* the one-character truncation marker U+2026 that summarize appends
ELLIPSIS == "..."

\* summarize with the length test off by one (>= for >)
summarizeOffByOne(text, max_chars) ==
    LET txt == JoinSpace(Split(text))
    IN  Prefix(txt, max_chars) \o (IF Len(txt) >= max_chars THEN <<ELLIPSIS>> ELSE <<>>)

summarize(text, max_chars) ==
    LET txt == JoinSpace(Split(text))
    IN  Prefix(txt, max_chars) \o (IF Len(txt) > max_chars THEN <<ELLIPSIS>> ELSE <<>>)

QA_MAX_CHARS == 1000

\* sha1_text: the digest is not computed; it is kept as a tag around its input
sha1_text(s) == <<"sha1">> \o s

\* os.path.basename(path)
RECURSIVE basename(_)
basename(path) ==
    IF path = <<>> THEN <<>>
    ELSE IF path[Len(path)] = "/" THEN <<>>
    ELSE Append(basename(SubSeq(path, 1, Len(path) - 1)), path[Len(path)])

\* characters re.sub(r"[^A-Za-z0-9._-]+", "_", name) keeps
IsSafeChar(c) ==
    \/ \E i \in 1..Len(UPPER) : UPPER[i] = c
    \/ \E i \in 1..Len(LOWER) : LOWER[i] = c
    \/ \E i \in 1..Len(DIGITS) : DIGITS[i] = c
    \/ c \in {".", "_", "-"}

\* re.sub(r"[^A-Za-z0-9._-]+", "_", name): each run of other characters
\* becomes one "_"
RECURSIVE Sanitize(_)
Sanitize(name) ==
    IF name = <<>> THEN <<>>
    ELSE LET init == SubSeq(name, 1, Len(name) - 1)
             c    == name[Len(name)]
         IN  IF IsSafeChar(c) THEN Append(Sanitize(init), c)
             ELSE IF init # <<>> /\ ~IsSafeChar(init[Len(init)])
                  THEN Sanitize(init)
                  ELSE Append(Sanitize(init), "_")

\* m = re.search(r'filename="?([^"]+)"?', cd); m.group(1), or <<>> for no match
FilenameHint(cd) ==
    LET key == <<"f", "i", "l", "e", "n", "a", "m", "e", "=">>
        hits == {i \in 1..Len(cd) :
                    /\ i + Len(key) - 1 <= Len(cd)
                    /\ SubSeq(cd, i, i + Len(key) - 1) = key
                    /\ LET j == i + Len(key)
                       IN  \/ j <= Len(cd) /\ cd[j] # "\""
                           \/ j + 1 <= Len(cd) /\ cd[j] = "\"" /\ cd[j + 1] # "\""}
    IN  IF hits = {} THEN <<>>
        ELSE LET i == CHOOSE h \in hits : \A h2 \in hits : h <= h2
                 j == i + Len(key)
                 from == IF cd[j] = "\"" THEN j + 1 ELSE j
                 to == CHOOSE k \in from..Len(cd) :
                          /\ \A m \in from..k : cd[m] # "\""
                          /\ k = Len(cd) \/ cd[k + 1] = "\""
             IN  SubSeq(cd, from, to)

guess_filename(url, headers) ==
    LET base == basename(url.path)
        name == IF base = <<>> THEN <<"d", "o", "w", "n", "l", "o", "a", "d">> ELSE base
        hint == FilenameHint(headers.content_disposition)
    IN  Sanitize(IF hint # <<>> THEN hint ELSE name)

\* str.replace(old, new): every non-overlapping occurrence, left to right
RECURSIVE Replace(_, _, _)
Replace(s, old, new) ==
    IF Len(s) < Len(old) \/ old = <<>> THEN s
    ELSE IF SubSeq(s, 1, Len(old)) = old
         THEN new \o Replace(SubSeq(s, Len(old) + 1, Len(s)), old, new)
         ELSE <<s[1]>> \o Replace(Tail(s), old, new)

\* str.strip()
RECURSIVE Strip(_)
Strip(s) ==
    IF s = <<>> THEN s
    ELSE IF IsSpace(s[1]) THEN Strip(Tail(s))
    ELSE IF IsSpace(s[Len(s)]) THEN Strip(SubSeq(s, 1, Len(s) - 1))
    ELSE s

\* urljoin(base, href.strip()) for an absolute href, a scheme-relative href
\* (empty scheme) and a path-absolute href (empty scheme and netloc)
absolutize(base, href) ==
    IF href.scheme # <<>> THEN href
    ELSE IF href.netloc # <<>> THEN MkUrl(base.scheme, href.netloc, href.path)
    ELSE MkUrl(base.scheme, base.netloc, href.path)

\* discover_links without the is_allowed filter
discover_linksUnfiltered(base_url, html) ==
    Dedup([i \in 1..Len(html.hrefs) |-> absolutize(base_url, html.hrefs[i])])

\* discover_links without the dict.fromkeys deduplication
discover_linksNoDedup(base_url, html) ==
    SelectSeq([i \in 1..Len(html.hrefs) |-> absolutize(base_url, html.hrefs[i])], is_allowed)

\* discover_links(base_url, html): html.hrefs are the href values of the
\* anchors BeautifulSoup finds, in document order
discover_links(base_url, html) ==
    LET abs == [i \in 1..Len(html.hrefs) |-> absolutize(base_url, html.hrefs[i])]
    IN  Dedup(SelectSeq(abs, is_allowed))

\* clean_html_to_text(html) when it returns: (title, text) of readability
clean_html_to_text(html) == <<Strip(html.title), html.article>>

\* extract_pdf_text(content)
extract_pdf_text(content) ==
    IF content.doc_ok THEN content.doc_text
    ELSE <<"[", "[", "P", "D", "F", " ", "e", "x", "t", "r", "a", "c", "t", " ",
           "f", "a", "i", "l", "e", "d", ":", " ">> \o content.doc_err \o <<"]", "]">>

\* extract_docx_text(content)
extract_docx_text(content) ==
    IF content.doc_ok THEN content.doc_text
    ELSE <<"[", "[", "D", "O", "C", "X", " ", "e", "x", "t", "r", "a", "c", "t", " ",
           "f", "a", "i", "l", "e", "d", ":", " ">> \o content.doc_err \o <<"]", "]">>

(***************************************************************************)
(* Records written by write_jsonl.  fetched_at (the wall clock) is left    *)
(* out of PageItem.                                                        *)
(***************************************************************************)
PageItem(url, content_type, title, text, status, sha1, links) ==
    [url |-> url, content_type |-> content_type, title |-> title, text |-> text,
     status |-> status, sha1 |-> sha1, links |-> links]

QAItem(question, answer, tags, sources) ==
    [question |-> question, answer |-> answer, tags |-> tags, sources |-> sources]

S_error == <<"e", "r", "r", "o", "r">>
S_html == <<"h", "t", "m", "l">>
S_pdf == <<"p", "d", "f">>
S_docx == <<"d", "o", "c", "x">>

\* FetchErrorItem as a slip would write it: the status of the failed call
\* left at -1
FetchErrorItemBadStatus(url, e) ==
    PageItem(url, S_error, <<>>,
             <<"[", "[", "F", "E", "T", "C", "H", " ", "E", "R", "R", "O", "R", ":", " ">>
                 \o e \o <<"]", "]">>,
             -1, <<>>, <<>>)

\* the PageItem written when fetch raises e
FetchErrorItem(url, e) ==
    PageItem(url, S_error, <<>>,
             <<"[", "[", "F", "E", "T", "C", "H", " ", "E", "R", "R", "O", "R", ":", " ">>
                 \o e \o <<"]", "]">>,
             0, <<>>, <<>>)

\* HttpErrorItem as a copy of the transport-error record would write it:
\* status 0 instead of the HTTP status
HttpErrorItemStatusZero(url, status) ==
    PageItem(url, S_error, <<>>, <<"H", "T", "T", "P", " ">> \o IntToStr(status),
             0, <<>>, <<>>)

\* the PageItem written for a status other than 200
HttpErrorItem(url, status) ==
    PageItem(url, S_error, <<>>, <<"H", "T", "T", "P", " ">> \o IntToStr(status),
             status, <<>>, <<>>)

\* the PageItem of the final else branch (neither html, pdf nor docx)
OtherItem(url, status, ctype_low) ==
    PageItem(url, ctype_low, <<>>, <<>>, status, <<>>, <<>>)

HtmlItem(url, title, text, status, links) ==
    PageItem(url, S_html, title, text, status, sha1_text(text), links)

DocItem(url, kind, fname, text, status) ==
    PageItem(url, kind, fname, text, status, sha1_text(text), <<>>)

HtmlQA(url, title, text) ==
    QAItem(title, summarize(text, QA_MAX_CHARS), <<"deltawonen", "html">>, <<url>>)

\* question = fname.replace(".pdf","").replace("_"," ").strip()
DocQA(url, kind, fname, text) ==
    QAItem(Strip(Replace(Replace(fname, <<".">> \o kind, <<>>), <<"_">>, <<" ">>)),
           summarize(text, QA_MAX_CHARS),
           <<"deltawonen", IF kind = S_pdf THEN "pdf" ELSE "docx">>, <<url>>)

\* the html branch emits a QA record only under "if title and text"
HtmlEmitsQA(title, text) == Truthy(title) /\ Truthy(text)

\* content-type dispatch of the crawl loop
IsHtml(ctype_low) == Contains(ctype_low, <<"t", "e", "x", "t", "/", "h", "t", "m", "l">>)

IsPdf(ctype_low, url) ==
    \/ Contains(ctype_low, <<"a", "p", "p", "l", "i", "c", "a", "t", "i", "o", "n", "/", "p", "d", "f">>)
    \/ EndsWith(Lower(UrlString(url)), <<".", "p", "d", "f">>)

IsDocx(ctype_low, url) ==
    \/ Contains(ctype_low,
          <<"a", "p", "p", "l", "i", "c", "a", "t", "i", "o", "n", "/", "v", "n", "d", ".",
            "o", "p", "e", "n", "x", "m", "l", "f", "o", "r", "m", "a", "t", "s", "-",
            "o", "f", "f", "i", "c", "e", "d", "o", "c", "u", "m", "e", "n", "t", ".",
            "w", "o", "r", "d", "p", "r", "o", "c", "e", "s", "s", "i", "n", "g", "m", "l", ".",
            "d", "o", "c", "u", "m", "e", "n", "t">>)
    \/ EndsWith(Lower(UrlString(url)), <<".", "d", "o", "c", "x">>)

\* re.search(r"\.(doc|xls|ppt)(x)?$", url, re.I)
IsOfficeDoc(url) ==
    \E ext \in { <<"d", "o", "c">>, <<"x", "l", "s">>, <<"p", "p", "t">> } :
        \/ EndsWith(Lower(UrlString(url)), <<".">> \o ext)
        \/ EndsWith(Lower(UrlString(url)), <<".">> \o ext \o <<"x">>)

\* open(os.path.join(ASSETS_DIR, fname), "wb") raises for a name that is a
\* directory of the asset store ("." and "..")
AssetWriteRaises(fname) == fname \in { <<".">>, <<".", ".">> }

\* the asset store after f.write(content) under fname
WriteAsset(store, fname, content) ==
    {a \in store : a.name # fname} \cup {[name |-> fname, content |-> content]}

\* AlreadySeen with the seen test lost: nothing is ever skipped
AlreadySeenNever(url, seenset) == FALSE

\* the test "url in seen" that skips a dequeued URL
AlreadySeen(url, seenset) == url \in seenset

\* Enqueueable without the "u2 not in seen" test
EnqueueableIgnoringSeen(u2, seenset, parser) ==
    is_allowed(u2) /\ allowed_by_robots(parser, u2)

\* Enqueueable without the robots test
EnqueueableIgnoringRobots(u2, seenset, parser) ==
    u2 \notin seenset /\ is_allowed(u2)

\* the test under which a discovered link is put on the queue
Enqueueable(u2, seenset, parser) ==
    u2 \notin seenset /\ is_allowed(u2) /\ allowed_by_robots(parser, u2)

\* the test under which a seed URL is put on the queue
SeedAccepted(u, parser) == is_allowed(u) /\ allowed_by_robots(parser, u)

(***************************************************************************)
(* The site the run meets: a small universe of URLs, response bodies and   *)
(* responses.                                                              *)
(***************************************************************************)
S_https == <<"h", "t", "t", "p", "s">>
S_www == <<"w", "w", "w", ".", "d", "e", "l", "t", "a", "w", "o", "n", "e", "n", ".", "n", "l">>

HOME == MkUrl(S_https, S_www, <<"/">>)
PAGE_A == MkUrl(S_https, <<"d", "e", "l", "t", "a", "w", "o", "n", "e", "n", ".", "n", "l">>, <<"/", "a">>)
PRIVATE_X == MkUrl(S_https, S_www, <<"/", "p", "r", "i", "v", "a", "t", "e", "/", "x">>)
DOC_PDF == MkUrl(S_https, S_www, <<"/", "d", "o", "c", "s", "/", "d", "o", "c", ".", "p", "d", "f">>)
F_DOCX == MkUrl(S_https, <<"W", "W", "W", ".", "D", "e", "l", "t", "a", "W", "o", "n", "e", "n", ".", "N", "L">>,
                <<"/", "f", ".", "D", "O", "C", "X">>)
G_XLS == MkUrl(S_https, S_www, <<"/", "g", ".", "x", "l", "s">>)
EXTERNAL == MkUrl(S_https, <<"e", "x", "a", "m", "p", "l", "e", ".", "c", "o", "m">>, <<"/">>)
LOGO == MkUrl(S_https, S_www, <<"/", "l", "o", "g", "o", ".", "p", "n", "g">>)
\* the path-absolute href "/a" and "/private/x" as they stand in a page
HREF_PRIVATE == MkUrl(<<>>, <<>>, <<"/", "p", "r", "i", "v", "a", "t", "e", "/", "x">>)

URLS == {HOME, PAGE_A, PRIVATE_X, DOC_PDF, F_DOCX, G_XLS, EXTERNAL, LOGO}

\* A response body, described by what each parser makes of it:
\*   readable        clean_html_to_text returns (FALSE: readability raises)
\*   title, article  readability's short_title() and cleaned summary text
\*   visible         BeautifulSoup(html).get_text(" ", strip=True)
\*   hrefs           the href values of its anchors
\*   doc_ok          the PDF/DOCX extractor returns (FALSE: it raises doc_err)
\*   doc_text        the text the PDF/DOCX extractor returns
Body(readable, title, article, visible, hrefs, doc_ok, doc_text, doc_err) ==
    [readable |-> readable, title |-> title, article |-> article, visible |-> visible,
     hrefs |-> hrefs, doc_ok |-> doc_ok, doc_text |-> doc_text, doc_err |-> doc_err]

ArticleWords == 60

\* a 60-word article with two in-domain links and one external link
ARTICLE_PAGE ==
    Body(TRUE, <<"H", "u", "u", "r">>, Words(ArticleWords), Words(ArticleWords),
         <<PAGE_A, EXTERNAL, DOC_PDF>>, FALSE, <<>>, <<"E", "O", "F">>)

\* a page readability finds neither title nor article in; links repeat
STUB_PAGE ==
    Body(TRUE, <<>>, <<"w">>, <<"m", "e", "n", "u">>,
         <<HREF_PRIVATE, PAGE_A, F_DOCX, PAGE_A, LOGO, G_XLS, HOME>>,
         FALSE, <<>>, <<"E", "O", "F">>)

\* a titled page without any text
BLANK_PAGE ==
    Body(TRUE, <<"H", "u", "u", "r">>, <<>>, <<>>, <<>>, FALSE, <<>>, <<"E", "O", "F">>)

\* zero bytes: readability raises "Document is empty"
EMPTY_BODY ==
    Body(FALSE, <<>>, <<>>, <<>>, <<>>, FALSE, <<>>, <<"E", "O", "F">>)

\* a document with extractable text
TEXT_DOC ==
    Body(FALSE, <<>>, <<>>, <<>>, <<>>, TRUE, <<"H", "u", "u", "r", " ", " ", "2">>, <<>>)

\* a scanned document: extraction succeeds and finds no text
SCANNED_DOC ==
    Body(FALSE, <<>>, <<>>, <<>>, <<>>, TRUE, <<>>, <<>>)

NO_HEADERS == [content_disposition |-> <<>>]

\* Content-Disposition: attachment; filename="my doc.pdf"
CD_MY_DOC ==
    [content_disposition |->
        <<"a", "t", "t", "a", "c", "h", "m", "e", "n", "t", ";", " ",
          "f", "i", "l", "e", "n", "a", "m", "e", "=", "\"",
          "m", "y", " ", "d", "o", "c", ".", "p", "d", "f", "\"">>]

\* Content-Disposition: attachment; filename=..
CD_DOTDOT ==
    [content_disposition |->
        <<"a", "t", "t", "a", "c", "h", "m", "e", "n", "t", ";", " ",
          "f", "i", "l", "e", "n", "a", "m", "e", "=", ".", ".">>]

H_HTML_UTF8 == <<"t", "e", "x", "t", "/", "h", "t", "m", "l", ";", " ",
                 "c", "h", "a", "r", "s", "e", "t", "=", "U", "T", "F", "-", "8">>
H_TEXT_HTML_CAPS == <<"T", "e", "x", "t", "/", "H", "T", "M", "L">>
H_PDF == <<"a", "p", "p", "l", "i", "c", "a", "t", "i", "o", "n", "/", "p", "d", "f">>
H_OCTET == <<"a", "p", "p", "l", "i", "c", "a", "t", "i", "o", "n", "/",
             "o", "c", "t", "e", "t", "-", "s", "t", "r", "e", "a", "m">>
H_XML == <<"t", "e", "x", "t", "/", "x", "m", "l">>

\* what fetch(url) meets: it raises e (raises = TRUE) or returns
\* (status, ctype, content, headers)
Response(raises, e, status, ctype, content, headers) ==
    [raises |-> raises, e |-> e, status |-> status, ctype |-> ctype,
     content |-> content, headers |-> headers]

HTTP_OK == 200
TIMEOUT == Response(TRUE, <<"t", "i", "m", "e", "d", " ", "o", "u", "t">>, 0, <<>>, EMPTY_BODY, NO_HEADERS)

PageResponses ==
    { TIMEOUT,
      Response(FALSE, <<>>, HTTP_OK, H_HTML_UTF8, ARTICLE_PAGE, NO_HEADERS),
      Response(FALSE, <<>>, HTTP_OK, H_TEXT_HTML_CAPS, STUB_PAGE, NO_HEADERS),
      Response(FALSE, <<>>, HTTP_OK, H_HTML_UTF8, BLANK_PAGE, NO_HEADERS),
      Response(FALSE, <<>>, HTTP_OK, H_HTML_UTF8, EMPTY_BODY, NO_HEADERS),
      Response(FALSE, <<>>, HTTP_OK, H_PDF, TEXT_DOC, CD_MY_DOC),
      Response(FALSE, <<>>, HTTP_OK, H_PDF, EMPTY_BODY, CD_DOTDOT),
      Response(FALSE, <<>>, HTTP_OK, H_OCTET, SCANNED_DOC, NO_HEADERS),
      Response(FALSE, <<>>, HTTP_OK, H_OCTET, EMPTY_BODY, NO_HEADERS),
      Response(FALSE, <<>>, 404, H_HTML_UTF8, STUB_PAGE, NO_HEADERS) }

\* what the request for /robots.txt meets (see RobotRead)
RobotsResponses ==
    { [kind |-> "ok", code |-> 200, disallow |-> { <<"/", "p", "r", "i", "v", "a", "t", "e", "/">> }],
      [kind |-> "ok", code |-> 200, disallow |-> {}],
      [kind |-> "httperror", code |-> 404, disallow |-> {}],
      [kind |-> "httperror", code |-> 403, disallow |-> {}],
      [kind |-> "httperror", code |-> 503, disallow |-> {}],
      [kind |-> "urlerror", code |-> 0, disallow |-> {}],
      [kind |-> "undecodable", code |-> 200, disallow |-> {}] }

\* what the request for a sitemap meets: requests.get raises, or a response
\* with the <loc> values BeautifulSoup finds in it
SitemapResponses ==
    { [raises |-> TRUE, status |-> 0, ctype |-> <<>>, locs |-> <<>>],
      [raises |-> FALSE, status |-> HTTP_OK, ctype |-> H_XML, locs |-> <<HOME, F_DOCX, LOGO, HOME>>],
      [raises |-> FALSE, status |-> HTTP_OK, ctype |-> H_HTML_UTF8, locs |-> <<PAGE_A>>] }

\* get_sitemap_urls() for the one sitemap of SITEMAPS
get_sitemap_urls(sm) ==
    IF sm.raises THEN <<>>
    ELSE IF sm.status = HTTP_OK /\ Contains(sm.ctype, <<"x", "m", "l">>)
         THEN Dedup(SelectSeq(sm.locs, is_allowed))
         ELSE <<>>

\* bounds of the run's arguments
MaxPages == 2

DELAY_TENTHS == 15

StartLists == { <<HOME>>, <<PAGE_A, EXTERNAL, HOME>> }

Args ==
    [start : StartLists, max_pages : {1, MaxPages}, delay : {DELAY_TENTHS},
     include_docs : BOOLEAN]

(***************************************************************************)
(* State of one run of main().                                             *)
(***************************************************************************)
VARIABLES
    pc,       \* "start", "seed", "loop", "done", or "crashed" (an uncaught exception)
    args,     \* the parsed command line
    site,     \* what /robots.txt and the sitemap answer in this run
    rp,       \* the RobotFileParser
    q,        \* the FIFO queue of URLs
    seen,     \* the set of URLs dequeued for a visit
    count,    \* the visited count
    raw,      \* data/raw_pages.jsonl, the lines this run appended
    qa,       \* data/qa.jsonl, the lines this run appended
    assets,   \* data/assets: {[name, content]}
    fetched,  \* history: the calls of fetch(url), with what each met
    slept,    \* history: the time.sleep calls, their durations
    unslept,  \* history: the fetches made since the last time.sleep
    call      \* a call of one of the module's functions on its own: [fn, input, output]

vars == <<pc, args, site, rp, q, seen, count, raw, qa, assets, fetched, slept, unslept, call>>

\* no function has been called on its own
NO_CALL == [fn |-> "none"]

Init ==
    /\ pc = "start"
    /\ args \in Args
    /\ site \in [robots : RobotsResponses, sitemap : SitemapResponses]
    /\ rp = NewRobotParser
    /\ q = <<>>
    /\ seen = {}
    /\ count = 0
    /\ raw = <<>>
    /\ qa = <<>>
    /\ assets = {}
    /\ fetched = <<>>
    /\ slept = <<>>
    /\ unslept = 0
    /\ call = NO_CALL

\* rp = get_robot_parser(args.start[0])
GetRobotParser ==
    /\ pc = "start"
    /\ rp' = get_robot_parser(site.robots)
    /\ pc' = "seed"
    /\ UNCHANGED <<call, args, site, q, seen, count, raw, qa, assets, fetched, slept, unslept>>

\* the seeding loop over get_sitemap_urls() + list(args.start)
Seed ==
    /\ pc = "seed"
    /\ LET candidates == get_sitemap_urls(site.sitemap) \o args.start
       IN  q' = SelectSeq(candidates, LAMBDA u : SeedAccepted(u, rp))
    /\ pc' = "loop"
    /\ UNCHANGED <<call, args, site, rp, seen, count, raw, qa, assets, fetched, slept, unslept>>

\* the loop condition
LoopRuns == q # <<>> /\ count < args.max_pages

\* the record of one call of fetch
FetchEvent(url, resp) ==
    [url |-> url, raises |-> resp.raises, status |-> resp.status, ctype |-> resp.ctype,
     content |-> resp.content]

\* an iteration that dequeues a URL already in seen: continue
SkipSeen ==
    /\ pc = "loop"
    /\ LoopRuns
    /\ AlreadySeen(Head(q), seen)
    /\ q' = Tail(q)
    /\ UNCHANGED <<pc, call, args, site, rp, seen, count, raw, qa, assets, fetched, slept, unslept>>

\* the end of every iteration that reaches it: count += 1; time.sleep(args.delay)
EndOfIteration ==
    /\ count' = count + 1
    /\ slept' = Append(slept, args.delay)
    /\ unslept' = 0

\* an iteration whose fetch raises: the error record, then continue
VisitFetchError ==
    /\ pc = "loop"
    /\ LoopRuns
    /\ ~AlreadySeen(Head(q), seen)
    /\ \E resp \in PageResponses :
          /\ resp.raises
          /\ LET url == Head(q)
             IN  /\ seen' = seen \cup {url}
                 /\ fetched' = Append(fetched, FetchEvent(url, resp))
                 /\ raw' = Append(raw, FetchErrorItem(url, resp.e))
    /\ q' = Tail(q)
    /\ unslept' = unslept + 1
    /\ UNCHANGED <<pc, call, args, site, rp, count, qa, assets, slept>>

\* an iteration whose fetch returns a status other than 200
VisitHttpError ==
    /\ pc = "loop"
    /\ LoopRuns
    /\ ~AlreadySeen(Head(q), seen)
    /\ \E resp \in PageResponses :
          /\ ~resp.raises
          /\ resp.status # HTTP_OK
          /\ LET url == Head(q)
             IN  /\ seen' = seen \cup {url}
                 /\ fetched' = Append(fetched, FetchEvent(url, resp))
                 /\ raw' = Append(raw, HttpErrorItem(url, resp.status))
    /\ q' = Tail(q)
    /\ EndOfIteration
    /\ UNCHANGED <<pc, call, args, site, rp, qa, assets>>

\* an iteration whose fetch returns 200 with "text/html" in the content type
VisitHtml ==
    /\ pc = "loop"
    /\ LoopRuns
    /\ ~AlreadySeen(Head(q), seen)
    /\ \E resp \in PageResponses :
          /\ ~resp.raises
          /\ resp.status = HTTP_OK
          /\ IsHtml(Lower(resp.ctype))
          /\ LET url == Head(q)
                 html == resp.content
             IN  /\ seen' = seen \cup {url}
                 /\ fetched' = Append(fetched, FetchEvent(url, resp))
                 /\ IF ~html.readable
                    THEN \* clean_html_to_text raises; nothing catches it
                         /\ pc' = "crashed"
                         /\ q' = Tail(q)
                         /\ unslept' = unslept + 1
                         /\ UNCHANGED <<count, raw, qa, slept>>
                    ELSE LET tt == clean_html_to_text(html)
                             title == tt[1]
                             text == IF html_is_article(tt[2]) THEN tt[2] ELSE html.visible
                             links == discover_links(url, html)
                         IN  /\ q' = Tail(q) \o SelectSeq(links, LAMBDA u2 : Enqueueable(u2, seen', rp))
                             /\ raw' = Append(raw, HtmlItem(url, title, text, resp.status, links))
                             /\ qa' = IF HtmlEmitsQA(title, text)
                                      THEN Append(qa, HtmlQA(url, title, text))
                                      ELSE qa
                             /\ EndOfIteration
                             /\ pc' = pc
    /\ UNCHANGED <<call, args, site, rp, assets>>

\* the pdf and docx branches: save the asset, extract, write both records
VisitDocument(url, resp, kind, text) ==
    LET fname == guess_filename(url, resp.headers)
    IN  /\ seen' = seen \cup {url}
        /\ fetched' = Append(fetched, FetchEvent(url, resp))
        /\ q' = Tail(q)
        /\ IF AssetWriteRaises(fname)
           THEN \* open() raises; nothing catches it
                /\ pc' = "crashed"
                /\ unslept' = unslept + 1
                /\ UNCHANGED <<count, raw, qa, assets, slept>>
           ELSE /\ assets' = WriteAsset(assets, fname, resp.content)
                /\ raw' = Append(raw, DocItem(url, kind, fname, text, resp.status))
                /\ qa' = Append(qa, DocQA(url, kind, fname, text))
                /\ EndOfIteration
                /\ pc' = pc

\* an iteration whose fetch returns 200 for a PDF
VisitPdf ==
    /\ pc = "loop"
    /\ LoopRuns
    /\ ~AlreadySeen(Head(q), seen)
    /\ \E resp \in PageResponses :
          /\ ~resp.raises
          /\ resp.status = HTTP_OK
          /\ ~IsHtml(Lower(resp.ctype))
          /\ IsPdf(Lower(resp.ctype), Head(q))
          /\ VisitDocument(Head(q), resp, S_pdf, extract_pdf_text(resp.content))
    /\ UNCHANGED <<call, args, site, rp>>

\* an iteration whose fetch returns 200 for a DOCX
VisitDocx ==
    /\ pc = "loop"
    /\ LoopRuns
    /\ ~AlreadySeen(Head(q), seen)
    /\ \E resp \in PageResponses :
          /\ ~resp.raises
          /\ resp.status = HTTP_OK
          /\ ~IsHtml(Lower(resp.ctype))
          /\ ~IsPdf(Lower(resp.ctype), Head(q))
          /\ IsDocx(Lower(resp.ctype), Head(q))
          /\ VisitDocument(Head(q), resp, S_docx, extract_docx_text(resp.content))
    /\ UNCHANGED <<call, args, site, rp>>

\* an iteration whose fetch returns 200 for anything else
VisitOther ==
    /\ pc = "loop"
    /\ LoopRuns
    /\ ~AlreadySeen(Head(q), seen)
    /\ \E resp \in PageResponses :
          /\ ~resp.raises
          /\ resp.status = HTTP_OK
          /\ ~IsHtml(Lower(resp.ctype))
          /\ ~IsPdf(Lower(resp.ctype), Head(q))
          /\ ~IsDocx(Lower(resp.ctype), Head(q))
          /\ LET url == Head(q)
                 fname == guess_filename(url, resp.headers)
                 saves == args.include_docs /\ IsOfficeDoc(url)
             IN  /\ seen' = seen \cup {url}
                 /\ fetched' = Append(fetched, FetchEvent(url, resp))
                 /\ q' = Tail(q)
                 /\ IF saves /\ AssetWriteRaises(fname)
                    THEN /\ pc' = "crashed"
                         /\ unslept' = unslept + 1
                         /\ UNCHANGED <<count, raw, assets, slept>>
                    ELSE /\ assets' = IF saves THEN WriteAsset(assets, fname, resp.content)
                                      ELSE assets
                         /\ raw' = Append(raw, OtherItem(url, resp.status, Lower(resp.ctype)))
                         /\ EndOfIteration
                         /\ pc' = pc
    /\ UNCHANGED <<call, args, site, rp, qa>>

\* the loop condition fails: pbar.close(); print("Done. Visited ...")
Finish ==
    /\ pc = "loop"
    /\ ~LoopRuns
    /\ pc' = "done"
    /\ UNCHANGED <<call, args, site, rp, q, seen, count, raw, qa, assets, fetched, slept, unslept>>

Next ==
    \/ GetRobotParser
    \/ Seed
    \/ SkipSeen
    \/ VisitFetchError
    \/ VisitHttpError
    \/ VisitHtml
    \/ VisitPdf
    \/ VisitDocx
    \/ VisitOther
    \/ Finish

Spec == Init /\ [][Next]_vars

(***************************************************************************)
(* Properties.                                                             *)
(***************************************************************************)
\* the URLs of a sequence of records
UrlsOf(records) == {records[i].url : i \in DOMAIN records}

\* the records of a sequence that are about url
RecordsFor(records, url) == {i \in DOMAIN records : records[i].url = url}

\* the QA records whose sources is [url]
QAFor(url) == {j \in DOMAIN qa : qa[j].sources = <<url>>}

\* the step is a call of fetch
FetchStep ==
    /\ Len(fetched') = Len(fetched) + 1
    /\ SubSeq(fetched', 1, Len(fetched)) = fetched

\* C1: each distinct URL is fetched at most once in a run, and the raw-page
\* stream holds at most one PageRecord for any URL, also for a URL that was
\* put on the queue several times.
C1_EachUrlFetchedAtMostOnce ==
    /\ \A i, j \in DOMAIN fetched : fetched[i].url = fetched[j].url => i = j
    /\ \A i, j \in DOMAIN raw : raw[i].url = raw[j].url => i = j

\* HOME was seeded twice (sitemap and start list), both entries have been
\* dequeued, and the run is over with its one record
C1_Witness ==
    /\ pc = "done"
    /\ q = <<>>
    /\ Count(HOME, SelectSeq(get_sitemap_urls(site.sitemap) \o args.start,
                             LAMBDA u : SeedAccepted(u, rp))) >= 2
    /\ Cardinality(RecordsFor(raw, HOME)) = 1

\* C2 (as claimed): no URL of the seen set is at the same time pending in the
\* queue.
C2_SeenNeverPending == \A i \in DOMAIN q : q[i] \notin seen

\* C2 (amended): a URL of the seen set may still have entries in the queue
\* that were put there before it was dequeued, but from the moment a URL is
\* in the seen set no entry for it is added to the queue, and dequeuing an
\* entry for a seen URL fetches nothing and writes nothing.
C2_NoEnqueueOnceSeen ==
    [][ /\ \A u \in seen' : Count(u, q') <= Count(u, q)
        /\ (q # <<>> /\ Head(q) \in seen) => (fetched' = fetched /\ raw' = raw /\ seen' = seen)
      ]_vars

\* a seen URL with an entry still pending, while the loop goes on
C2_Witness ==
    /\ pc = "loop"
    /\ \E i \in DOMAIN q : q[i] \in seen
    /\ \E i \in DOMAIN raw : Len(raw[i].links) > 0

\* C3: a QARecord whose sources is the record's URL is emitted if and only if
\* the PageRecord has a non-empty title and a non-empty text, and at most one
\* per PageRecord.
C3_QAIffTitleAndText ==
    \A i \in DOMAIN raw :
        Cardinality(QAFor(raw[i].url)) =
            IF Truthy(raw[i].title) /\ Truthy(raw[i].text) THEN 1 ELSE 0

\* C4: no two fetches occur without a sleep of the configured delay between
\* them, whatever the outcome of the first.
C4_SleepBetweenFetches ==
    /\ unslept <= 1
    /\ \A i \in DOMAIN slept : slept[i] = args.delay

\* C5: the number of URLs fetched, and of PageRecords written, never exceeds
\* --max-pages.
C5_FetchesWithinBudget ==
    /\ Len(fetched) <= args.max_pages
    /\ Len(raw) <= args.max_pages

\* the text f"[[FETCH ERROR: {e}]]" for some e
IsFetchErrorMarker(text) ==
    /\ StartsWith(text, <<"[", "[", "F", "E", "T", "C", "H", " ", "E", "R", "R", "O", "R", ":", " ">>)
    /\ EndsWith(text, <<"]", "]">>)

\* C6: when fetch raises for a URL the run appends exactly one PageRecord for
\* it (content_type error, status 0, empty title, empty links, error-marker
\* text), writes no QARecord, enqueues nothing, keeps the URL in the seen set
\* and goes on with the loop; the URL is not fetched again.
C6_TransportFailureRecorded ==
    /\ [][ (FetchStep /\ fetched'[Len(fetched')].raises) =>
             LET url == fetched'[Len(fetched')].url
                 item == raw'[Len(raw')]
             IN  /\ Len(raw') = Len(raw) + 1
                 /\ SubSeq(raw', 1, Len(raw)) = raw
                 /\ item.url = url
                 /\ item.content_type = S_error
                 /\ item.status = 0
                 /\ item.title = <<>>
                 /\ item.links = <<>>
                 /\ IsFetchErrorMarker(item.text)
                 /\ qa' = qa
                 /\ q' = Tail(q)
                 /\ url \in seen'
                 /\ pc' = "loop"
         ]_vars
    /\ [](\A i \in DOMAIN fetched : fetched[i].raises =>
             /\ fetched[i].url \in seen
             /\ Cardinality(RecordsFor(fetched, fetched[i].url)) = 1
             /\ Cardinality(RecordsFor(raw, fetched[i].url)) = 1
             /\ QAFor(fetched[i].url) = {})

\* a transport failure was recorded and the loop went on to fetch another URL
C6_Witness ==
    \E i \in DOMAIN fetched :
        /\ fetched[i].raises
        /\ i < Len(fetched)
        /\ ~fetched[Len(fetched)].raises
        /\ \E j \in DOMAIN raw : raw[j].url = fetched[i].url /\ raw[j].status = 0

\* C7: no failure on a page after a successful fetch aborts the run: a
\* PageRecord is written for every URL whose fetch returned, and the loop
\* goes on.
C7_NoPageFailureAborts ==
    /\ pc # "crashed"
    /\ \A i \in DOMAIN fetched : ~fetched[i].raises => fetched[i].url \in UrlsOf(raw)

\* C8: every URL that enters the queue is accepted by the scope filter and
\* allowed by the robots policy, so a URL robots.txt disallows is never
\* enqueued, never fetched and has no PageRecord.
C8_QueueInScopeAndAllowed ==
    /\ \A i \in DOMAIN q : is_allowed(q[i]) /\ allowed_by_robots(rp, q[i])
    /\ \A u \in seen \cup UrlsOf(fetched) \cup UrlsOf(raw) :
          /\ is_allowed(u)
          /\ allowed_by_robots(rp, u)
    /\ (pc # "start" /\ site.robots.kind = "ok") =>
          \A prefix \in site.robots.disallow :
              \A u \in {q[i] : i \in DOMAIN q} \cup seen \cup UrlsOf(raw) :
                  ~StartsWith(u.path, prefix)

\* robots.txt disallows /private/, a page that links to /private/x has been
\* recorded, and the run ended with the queue drained
C8_Witness ==
    /\ pc = "done"
    /\ q = <<>>
    /\ site.robots.kind = "ok"
    /\ ~allowed_by_robots(rp, PRIVATE_X)
    /\ \E i \in DOMAIN raw : \E k \in DOMAIN raw[i].links : raw[i].links[k] = PRIVATE_X

\* C9: when fetching or decoding robots.txt fails at start-up, the robots
\* policy answers true for every URL.
C9_RobotsFailOpen ==
    (pc # "start" /\ site.robots.kind \in {"urlerror", "undecodable"}) =>
        \A u \in URLS : allowed_by_robots(rp, u)

\* C10 (as claimed): the PageRecord of a non-200 response has that status and
\* the response's content-type header as its content_type.
C10_Non200KeepsHeaderType ==
    \A i \in DOMAIN fetched :
        (~fetched[i].raises /\ fetched[i].status # HTTP_OK) =>
            \E j \in DOMAIN raw :
                /\ raw[j].url = fetched[i].url
                /\ raw[j].status = fetched[i].status
                /\ raw[j].content_type = fetched[i].ctype

\* C10 (amended): for a fetch that returns a status other than 200 the run
\* appends exactly one PageRecord, with that status and content_type error
\* (not the content-type header), writes no QARecord and enqueues nothing.
C10_Non200Recorded ==
    /\ [][ (FetchStep /\ ~fetched'[Len(fetched')].raises
                      /\ fetched'[Len(fetched')].status # HTTP_OK) =>
             LET ev == fetched'[Len(fetched')]
                 item == raw'[Len(raw')]
             IN  /\ Len(raw') = Len(raw) + 1
                 /\ SubSeq(raw', 1, Len(raw)) = raw
                 /\ item.url = ev.url
                 /\ item.status = ev.status
                 /\ item.content_type = S_error
                 /\ item.links = <<>>
                 /\ qa' = qa
                 /\ q' = Tail(q)
         ]_vars
    /\ [](\A i \in DOMAIN fetched :
             (~fetched[i].raises /\ fetched[i].status # HTTP_OK) =>
                 /\ Cardinality(RecordsFor(raw, fetched[i].url)) = 1
                 /\ QAFor(fetched[i].url) = {})

\* a 404 has been recorded
C10_Witness ==
    \E i \in DOMAIN fetched : \E j \in DOMAIN raw :
        /\ fetched[i].status = 404
        /\ raw[j].url = fetched[i].url
        /\ raw[j].status = 404

\* the five values the PageItem comment gives content_type
CONTENT_TYPES ==
    { S_html, S_pdf, S_docx, <<"o", "t", "h", "e", "r">>, S_error }

\* C11: every PageRecord has a content_type among html, pdf, docx, other,
\* error.
C11_ContentTypeIsOneOfFive ==
    \A i \in DOMAIN raw : raw[i].content_type \in CONTENT_TYPES

\* C12: each link of an html PageRecord is accepted by the scope filter, and
\* a PageRecord that is not html has no links.
C12_LinksInScope ==
    \A i \in DOMAIN raw :
        IF raw[i].content_type = S_html
        THEN \A k \in DOMAIN raw[i].links :
                /\ raw[i].links[k].scheme \in ALLOWED_SCHEMES
                /\ Lower(raw[i].links[k].netloc) \in ALLOWED_NETLOCS
                /\ ~HasDeniedExtension(raw[i].links[k].path)
        ELSE raw[i].links = <<>>

\* an html record with links is written for a page that also linked out of
\* the domain and to a static asset, next to a record that is not html
C12_Witness ==
    /\ \E i \in DOMAIN fetched : \E j \in DOMAIN raw :
          /\ raw[j].url = fetched[i].url
          /\ raw[j].content_type = S_html
          /\ Len(raw[j].links) > 0
          /\ \E k \in DOMAIN fetched[i].content.hrefs :
                fetched[i].content.hrefs[k] \in {EXTERNAL, LOGO}
    /\ \E j \in DOMAIN raw : raw[j].content_type # S_html

\* C15: the crawl loop stops only with the queue empty or the visited count
\* at the page budget; it never stops while unseen URLs are still queued and
\* the budget is not exhausted.
C15_StopsOnlyWhenExhausted ==
    pc \in {"done", "crashed"} =>
        \/ count >= args.max_pages
        \/ \A i \in DOMAIN q : q[i] \in seen

\* the fetch returned 200 for what the loop classifies as pdf or docx, and
\* the bytes fail text extraction
ExtractionFails(ev) ==
    /\ ~ev.raises
    /\ ev.status = HTTP_OK
    /\ ~IsHtml(Lower(ev.ctype))
    /\ IsPdf(Lower(ev.ctype), ev.url) \/ IsDocx(Lower(ev.ctype), ev.url)
    /\ ~ev.content.doc_ok

\* the text "[[PDF extract failed: <err>]]" or "[[DOCX extract failed: <err>]]"
IsExtractFailedMarker(text, err) ==
    /\ \/ StartsWith(text, <<"[", "[", "P", "D", "F", " ", "e", "x", "t", "r", "a", "c", "t", " ",
                            "f", "a", "i", "l", "e", "d", ":", " ">>)
       \/ StartsWith(text, <<"[", "[", "D", "O", "C", "X", " ", "e", "x", "t", "r", "a", "c", "t", " ",
                            "f", "a", "i", "l", "e", "d", ":", " ">>)
    /\ EndsWith(text, err \o <<"]", "]">>)

\* C16: for a URL served with status 200 and classified as pdf or docx whose
\* bytes fail text extraction, the raw bytes are in the asset store, there is
\* one PageRecord whose text is the failure marker with the underlying error,
\* one QARecord whose answer is that marker truncated, and the crawl goes on.
C16_ExtractionFailureRecorded ==
    \A i \in DOMAIN fetched :
        ExtractionFails(fetched[i]) =>
            /\ ~(pc = "crashed" /\ i = Len(fetched))
            /\ \E a \in assets : a.content = fetched[i].content
            /\ Cardinality(RecordsFor(raw, fetched[i].url)) = 1
            /\ Cardinality(QAFor(fetched[i].url)) = 1
            /\ \A j \in RecordsFor(raw, fetched[i].url) :
                  /\ IsExtractFailedMarker(raw[j].text, fetched[i].content.doc_err)
                  /\ \A k \in QAFor(fetched[i].url) :
                        qa[k].answer = summarize(raw[j].text, QA_MAX_CHARS)

\* the PageRecords of type pdf or docx
DocRecords == {i \in DOMAIN raw : raw[i].content_type \in {S_pdf, S_docx}}

\* C17: at the end of a run each pdf or docx PageRecord names one asset file,
\* no two PageRecords for different URLs name the same file, and the file a
\* record names holds the bytes fetched for that record's URL.
C17_OneAssetPerDocument ==
    pc = "done" =>
        /\ \A i, j \in DocRecords : raw[i].url # raw[j].url => raw[i].title # raw[j].title
        /\ \A i \in DocRecords :
              /\ Cardinality({a \in assets : a.name = raw[i].title}) = 1
              /\ \A a \in assets : a.name = raw[i].title =>
                    \E k \in DOMAIN fetched :
                        fetched[k].url = raw[i].url /\ fetched[k].content = a.content

\* the step fetches a page served with status 200 and text/html and runs the
\* iteration to its end
HtmlPageProcessed ==
    /\ FetchStep
    /\ ~fetched'[Len(fetched')].raises
    /\ fetched'[Len(fetched')].status = HTTP_OK
    /\ IsHtml(Lower(fetched'[Len(fetched')].ctype))
    /\ pc' # "crashed"

\* the links the frontier is to gain from the page of fetch event ev: the
\* hrefs made absolute, those in scope, robots-allowed and outside seenset,
\* each at its first occurrence
NewFrontierEntries(ev, seenset, parser) ==
    LET abs    == [k \in DOMAIN ev.content.hrefs |-> absolutize(ev.url, ev.content.hrefs[k])]
        new(k) == /\ is_allowed(abs[k])
                  /\ allowed_by_robots(parser, abs[k])
                  /\ abs[k] \notin seenset
                  /\ \A m \in 1..(k - 1) : abs[m] # abs[k]
        idx    == {k \in DOMAIN abs : new(k)}
    IN  [n \in 1..Cardinality(idx) |->
            abs[CHOOSE k \in idx : Cardinality({m \in idx : m < k}) = n - 1]]

\* C18: after a page served with status 200 and text/html is processed, the
\* queue has gained exactly the page's discovered links that are in scope,
\* robots-allowed and not yet seen, one entry per distinct link in
\* first-occurrence order, and one html PageRecord was written for the page.
C18_HtmlPageFeedsFrontier ==
    [][ HtmlPageProcessed =>
            /\ q' = Tail(q) \o NewFrontierEntries(fetched'[Len(fetched')], seen', rp)
            /\ Len(raw') = Len(raw) + 1
            /\ SubSeq(raw', 1, Len(raw)) = raw
            /\ raw'[Len(raw')].url = fetched'[Len(fetched')].url
            /\ raw'[Len(raw')].content_type = S_html ]_vars

\* the start page with two new in-domain links and one external link was
\* processed: one html PageRecord, exactly the two in-domain links queued
C18_Witness ==
    /\ Len(fetched) = 1
    /\ fetched[1].url = HOME
    /\ fetched[1].content = ARTICLE_PAGE
    /\ EXTERNAL \in {ARTICLE_PAGE.hrefs[k] : k \in DOMAIN ARTICLE_PAGE.hrefs}
    /\ q = <<PAGE_A, DOC_PDF>>
    /\ Len(raw) = 1
    /\ raw[1].content_type = S_html

\* C19: when the loop ends the reported visited count equals the number of
\* PageRecords appended, which equals the size of the seen set.
C19_CountEqualsRecordsEqualsSeen ==
    pc = "done" =>
        /\ count = Len(raw)
        /\ Len(raw) = Cardinality(seen)

(***************************************************************************)
(* build_index.py: load_qa reads data/qa.jsonl line by line.  A line is    *)
(* what json.loads makes of it: blank, not JSON, a JSON value that is not  *)
(* an object, or an object with some of the keys question, answer, sources *)
(***************************************************************************)
QaLine(kind, has, question, answer, sources) ==
    [kind |-> kind, has |-> has, question |-> question, answer |-> answer,
     sources |-> sources]

QA_BLANK    == QaLine("blank", {}, <<>>, <<>>, <<>>)
QA_NOT_JSON == QaLine("notjson", {}, <<>>, <<>>, <<>>)
QA_ARRAY    == QaLine("value", {}, <<>>, <<>>, <<>>)
QA_FULL     == QaLine("object", {"question", "answer", "sources"},
                      <<"Q">>, <<"A">>, <<HOME>>)
QA_PARTIAL  == QaLine("object", {"question", "answer"}, <<"Q">>, <<>>, <<>>)

\* obj.get(key) or default
GetOr(obj, key, default) ==
    IF key \in obj.has /\ Truthy(obj[key]) THEN obj[key] ELSE default

\* the loop of load_qa from line i on; an exception that leaves the function
\* loses the items and is reported as raised
RECURSIVE load_qaFrom(_, _, _)
load_qaFrom(lines, i, items) ==
    IF i > Len(lines) THEN [raised |-> FALSE, e |-> "", items |-> items]
    ELSE LET obj == lines[i]
         IN  IF obj.kind = "blank" THEN load_qaFrom(lines, i + 1, items)
             ELSE IF obj.kind = "notjson" THEN load_qaFrom(lines, i + 1, items)
             ELSE IF obj.kind # "object"
                  THEN [raised |-> TRUE, e |-> "AttributeError", items |-> <<>>]
             ELSE load_qaFrom(lines, i + 1,
                      Append(items, [q |-> GetOr(obj, "question", <<>>),
                                     a |-> GetOr(obj, "answer", <<>>),
                                     sources |-> GetOr(obj, "sources", <<>>)]))

load_qa(lines) == load_qaFrom(lines, 1, <<>>)

(***************************************************************************)
(* The functions called on their own, on inputs from bounded sets: the     *)
(* modules are imported and one function is called, with no crawl running. *)
(***************************************************************************)
MaxTextLen == 4
MaxChars   == 3
MaxLines   == 3

SeqsUpTo(S, n) == UNION { [1..k -> S] : k \in 0..n }

TextChars == {"a", " ", "\n", ELLIPSIS}
Texts     == SeqsUpTo(TextChars, MaxTextLen)

S_ftp        == <<"f", "t", "p">>
S_http       == <<"h", "t", "t", "p">>
S_bare       == <<"d", "e", "l", "t", "a", "w", "o", "n", "e", "n", ".", "n", "l">>
S_port       == <<":", "4", "4", "3">>
S_bad_netloc == <<"[", ":", ":", "1">>
S_upper_ext  == <<"/", "x", ".", "J", "P", "G">>
ScopeUrls ==
    { MkUrl(sc, nl, pa) :
        sc \in {S_https, S_http, S_ftp},
        nl \in {S_www, S_bare, F_DOCX.netloc, EXTERNAL.netloc,
                S_www \o S_port, S_bad_netloc},
        pa \in {HOME.path, PAGE_A.path, LOGO.path, F_DOCX.path, DOC_PDF.path,
                LOGO.path \o <<"x">>, S_upper_ext, LOGO.path \o PAGE_A.path} }

QaLines == {QA_BLANK, QA_NOT_JSON, QA_ARRAY, QA_FULL, QA_PARTIAL}
QaFiles == SeqsUpTo(QaLines, MaxLines)

PureInit ==
    /\ pc = "imported"
    /\ args = CHOOSE a \in Args : TRUE
    /\ site = CHOOSE s \in [robots : RobotsResponses, sitemap : SitemapResponses] : TRUE
    /\ rp = NewRobotParser
    /\ q = <<>>
    /\ seen = {}
    /\ count = 0
    /\ raw = <<>>
    /\ qa = <<>>
    /\ assets = {}
    /\ fetched = <<>>
    /\ slept = <<>>
    /\ unslept = 0
    /\ call = NO_CALL

CallSummarize ==
    /\ call = NO_CALL
    /\ \E text \in Texts, max_chars \in 0..MaxChars :
          call' = [fn |-> "summarize", text |-> text, max_chars |-> max_chars,
                   out |-> summarize(text, max_chars)]
    /\ UNCHANGED <<pc, args, site, rp, q, seen, count, raw, qa, assets,
                   fetched, slept, unslept>>

CallIsAllowed ==
    /\ call = NO_CALL
    /\ \E url \in ScopeUrls :
          call' = [fn |-> "is_allowed", url |-> url, out |-> is_allowed(url)]
    /\ UNCHANGED <<pc, args, site, rp, q, seen, count, raw, qa, assets,
                   fetched, slept, unslept>>

CallLoadQa ==
    /\ call = NO_CALL
    /\ \E lines \in QaFiles :
          call' = [fn |-> "load_qa", lines |-> lines, out |-> load_qa(lines)]
    /\ UNCHANGED <<pc, args, site, rp, q, seen, count, raw, qa, assets,
                   fetched, slept, unslept>>

PureNext == CallSummarize \/ CallIsAllowed \/ CallLoadQa

PureSpec == PureInit /\ [][PureNext]_vars

(***************************************************************************)
(* Properties of the functions called on their own (PureSpec).             *)
(***************************************************************************)
\* the text with every whitespace run collapsed to one space and the ends
\* stripped, computed position by position
CollapseWhitespace(text) ==
    LET keep(i) == \/ ~IsSpace(text[i])
                   \/ /\ i > 1
                      /\ ~IsSpace(text[i - 1])
                      /\ \E j \in (i + 1)..Len(text) : ~IsSpace(text[j])
        kept    == {i \in DOMAIN text : keep(i)}
        nth(k)  == CHOOSE i \in kept : Cardinality({j \in kept : j < i}) = k - 1
    IN  [k \in 1..Cardinality(kept) |->
            IF IsSpace(text[nth(k)]) THEN " " ELSE text[nth(k)]]

EndsWithMarker(answer) == answer # <<>> /\ answer[Len(answer)] = ELLIPSIS

\* C13: the answer of summarize(text, max_chars) has length at most
\* max_chars + 1, and it ends with the truncation marker if and only if the
\* text passed in was longer than max_chars.
C13_MarkerIffSourceLonger ==
    call.fn = "summarize" =>
        /\ Len(call.out) <= call.max_chars + 1
        /\ EndsWithMarker(call.out) <=> Len(call.text) > call.max_chars

\* C13 (amended): the answer has length at most max_chars + 1; it is the
\* first max_chars characters of the whitespace-collapsed text followed by
\* the marker if and only if the collapsed text is longer than max_chars,
\* and it is the collapsed text itself otherwise.
C13_MarkerIffCollapsedLonger ==
    call.fn = "summarize" =>
        LET txt == CollapseWhitespace(call.text)
        IN  /\ Len(call.out) <= call.max_chars + 1
            /\ IF Len(txt) > call.max_chars
               THEN /\ Len(call.out) = call.max_chars + 1
                    /\ SubSeq(call.out, 1, call.max_chars) = SubSeq(txt, 1, call.max_chars)
                    /\ EndsWithMarker(call.out)
               ELSE call.out = txt

\* a text longer than max_chars whose collapsed form fits: no marker
C13_Witness ==
    /\ call.fn = "summarize"
    /\ Len(call.text) > call.max_chars
    /\ call.max_chars > 0
    /\ call.out # <<>>
    /\ ~EndsWithMarker(call.out)

\* the host of a netloc as urlparse(...).hostname gives it: user info and
\* port removed, lower-cased
Host(netloc) ==
    LET ats    == {i \in DOMAIN netloc : netloc[i] = "@"}
        from   == IF ats = {} THEN 1
                  ELSE 1 + CHOOSE i \in ats : \A j \in ats : j <= i
        rest   == SubSeq(netloc, from, Len(netloc))
        colons == {i \in DOMAIN rest : rest[i] = ":"}
        upto   == IF colons = {} THEN Len(rest)
                  ELSE (CHOOSE i \in colons : \A j \in colons : i <= j) - 1
    IN  Lower(SubSeq(rest, 1, upto))

\* the path ends in "." followed by a denylisted extension, in any case
EndsInDeniedExtension(path) ==
    LET dots == {i \in DOMAIN path : path[i] = "."}
    IN  /\ dots # {}
        /\ LET last == CHOOSE i \in dots : \A j \in dots : j <= i
           IN  Lower(SubSeq(path, last + 1, Len(path))) \in DENIED_EXTENSIONS

\* C14: is_allowed(u) is true if and only if u's scheme is http or https,
\* u's host is in the allow-set and u's path does not end in a denylisted
\* extension; a malformed URL is rejected.
C14_AcceptsIffHostAllowed ==
    call.fn = "is_allowed" =>
        (call.out <=>
            /\ ~UrlparseRaises(call.url)
            /\ call.url.scheme \in {S_http, S_https}
            /\ Host(call.url.netloc) \in ALLOWED_NETLOCS
            /\ ~EndsInDeniedExtension(call.url.path))

\* C14 (amended): is_allowed(u) is true if and only if u's scheme is http or
\* https, u's whole netloc (the host with any port or user info), lower-cased,
\* is in the allow-set, and u's path does not end in a denylisted extension;
\* a malformed URL is rejected.
C14_AcceptsIffNetlocAllowed ==
    call.fn = "is_allowed" =>
        (call.out <=>
            /\ ~UrlparseRaises(call.url)
            /\ call.url.scheme \in {S_http, S_https}
            /\ Lower(call.url.netloc) \in ALLOWED_NETLOCS
            /\ ~EndsInDeniedExtension(call.url.path))

\* a URL of the target host with an explicit port is rejected
C14_Witness ==
    /\ call.fn = "is_allowed"
    /\ call.url.netloc = S_www \o S_port
    /\ call.url.scheme = S_https
    /\ call.url.path = PAGE_A.path
    /\ ~call.out

\* C20: load_qa never aborts on a malformed line: it skips every line that is
\* not a well-formed record and returns one item per well-formed record in
\* stream order.
C20_LoadQaSkipsMalformed ==
    call.fn = "load_qa" =>
        LET records == SelectSeq(call.lines, LAMBDA l : l.kind = "object")
        IN  /\ ~call.out.raised
            /\ Len(call.out.items) = Len(records)
            /\ \A i \in DOMAIN records :
                  call.out.items[i].q = records[i].question
====
